---------------------------- MODULE Spec2Model ----------------------------
(***************************************************************************)
(* A model of expand_recurring_events.py: the date/time parser, the        *)
(* expansion of one master record into instances, the batch loop over a    *)
(* list of entries, and the extraction of the event array from a file's    *)
(* text.  Text is modelled by TLA+ strings, read character by character.   *)
(***************************************************************************)
EXTENDS Integers, Sequences, FiniteSets, TLC

(***************************************************************************)
(* Text helpers (Python str operations used by the source).                *)
(***************************************************************************)
CharAt(s, i) == SubSeq(s, i, i)

\* c in s, for a single character c
HasChar(s, c) == \E i \in 1..Len(s) : CharAt(s, i) = c

\* index of the first occurrence of character c in s from position i on, 0 if none
RECURSIVE FindChar(_, _, _)
FindChar(s, c, i) ==
    IF i > Len(s) THEN 0
    ELSE IF CharAt(s, i) = c THEN i
    ELSE FindChar(s, c, i + 1)

\* s.split(c): the pieces of s between the occurrences of character c
RECURSIVE Split(_, _)
Split(s, c) ==
    LET k == FindChar(s, c, 1)
    IN  IF k = 0 THEN <<s>>
        ELSE <<SubSeq(s, 1, k - 1)>> \o Split(SubSeq(s, k + 1, Len(s)), c)

\* s.replace(c, '') for a single character c
RECURSIVE RemoveChar(_, _)
RemoveChar(s, c) ==
    IF Len(s) = 0 THEN ""
    ELSE (IF Head(s) = c THEN "" ELSE Head(s)) \o RemoveChar(Tail(s), c)

\* s.replace(c, d) for single characters c, d
RECURSIVE ReplaceChar(_, _, _)
ReplaceChar(s, c, d) ==
    IF Len(s) = 0 THEN ""
    ELSE (IF Head(s) = c THEN d ELSE Head(s)) \o ReplaceChar(Tail(s), c, d)

UpperLetters == "ABCDEFGHIJKLMNOPQRSTUVWXYZ"
LowerLetters == "abcdefghijklmnopqrstuvwxyz"

LowerChar(c) ==
    LET k == FindChar(UpperLetters, c, 1)
    IN  IF k = 0 THEN c ELSE CharAt(LowerLetters, k)

\* s.lower()
RECURSIVE Lower(_)
Lower(s) == IF Len(s) = 0 THEN "" ELSE LowerChar(Head(s)) \o Lower(Tail(s))

Digits == "0123456789"
IsDigit(c) == FindChar(Digits, c, 1) # 0
DigitVal(c) == FindChar(Digits, c, 1) - 1
DigitChar(n) == CharAt(Digits, n + 1)

AllDigits(s) == \A i \in 1..Len(s) : IsDigit(CharAt(s, i))

\* the number written by the digit string s
RECURSIVE ToInt(_)
ToInt(s) ==
    IF Len(s) = 0 THEN 0
    ELSE 10 * ToInt(SubSeq(s, 1, Len(s) - 1)) + DigitVal(CharAt(s, Len(s)))

\* n written with at least w digits, zero padded
RECURSIVE Pad(_, _)
Pad(n, w) ==
    IF w <= 1 /\ n < 10 THEN DigitChar(n)
    ELSE Pad(n \div 10, w - 1) \o DigitChar(n % 10)

\* index of the first occurrence of pat in s at or after i, 0 if none (str.find)
RECURSIVE Find(_, _, _)
Find(s, pat, i) ==
    IF i + Len(pat) - 1 > Len(s) THEN 0
    ELSE IF SubSeq(s, i, i + Len(pat) - 1) = pat THEN i
    ELSE Find(s, pat, i + 1)

\* index of the last occurrence of pat lying within s[1..hi], 0 if none (str.rfind)
RECURSIVE RFindFrom(_, _, _)
RFindFrom(s, pat, i) ==
    IF i < 1 THEN 0
    ELSE IF SubSeq(s, i, i + Len(pat) - 1) = pat THEN i
    ELSE RFindFrom(s, pat, i - 1)

RFind(s, pat, hi) ==
    LET h == IF hi > Len(s) THEN Len(s) ELSE hi
    IN  RFindFrom(s, pat, h - Len(pat) + 1)

(***************************************************************************)
(* datetime and timedelta of the Python standard library, as the source    *)
(* uses them: proleptic Gregorian dates of the years 1..9999.              *)
(***************************************************************************)
IsLeap(y) == y % 4 = 0 /\ (y % 100 # 0 \/ y % 400 = 0)

DaysInMonth(y, m) ==
    IF m = 2 THEN (IF IsLeap(y) THEN 29 ELSE 28)
    ELSE IF m \in {4, 6, 9, 11} THEN 30 ELSE 31

RECURSIVE DaysBeforeMonth(_, _)
DaysBeforeMonth(y, m) ==
    IF m <= 1 THEN 0 ELSE DaysBeforeMonth(y, m - 1) + DaysInMonth(y, m - 1)

DaysBeforeYear(y) ==
    LET p == y - 1 IN p * 365 + p \div 4 - p \div 100 + p \div 400

ToOrdinal(y, m, d) == DaysBeforeYear(y) + DaysBeforeMonth(y, m) + d

\* date.max.toordinal()
MaxOrdinal == ToOrdinal(9999, 12, 31)

\* the month of day-of-year n (1-based) in year y
RECURSIVE MonthOf(_, _, _)
MonthOf(y, n, m) ==
    IF n <= DaysBeforeMonth(y, m) + DaysInMonth(y, m) THEN m ELSE MonthOf(y, n, m + 1)

\* date.fromordinal
FromOrdinal(n) ==
    LET n0   == n - 1
        n400 == n0 \div 146097
        r400 == n0 % 146097
        n100 == r400 \div 36524
        r100 == r400 % 36524
        n4   == r100 \div 1461
        r4   == r100 % 1461
        n1   == r4 \div 365
        r1   == r4 % 365
        y    == n400 * 400 + n100 * 100 + n4 * 4 + n1 + 1
    IN  IF n1 = 4 \/ n100 = 4
        THEN [year |-> y - 1, month |-> 12, day |-> 31]
        ELSE LET m == MonthOf(y, r1 + 1, 1)
             IN  [year |-> y, month |-> m, day |-> r1 + 1 - DaysBeforeMonth(y, m)]

DateTime(y, mo, d, h, mi, s, us) ==
    [year |-> y, month |-> mo, day |-> d, hour |-> h, minute |-> mi,
     second |-> s, microsecond |-> us]

NoDateTime == DateTime(0, 0, 0, 0, 0, 0, 0)

ValidDate(y, m, d) ==
    /\ y >= 1 /\ y <= 9999
    /\ m >= 1 /\ m <= 12
    /\ d >= 1 /\ d <= DaysInMonth(y, m)

SecondsOf(dt) == dt.hour * 3600 + dt.minute * 60 + dt.second

TimeDelta(days, seconds, us) == [days |-> days, seconds |-> seconds, microseconds |-> us]

\* timedelta's normalisation: 0 <= microseconds < 10^6, 0 <= seconds < 86400
Normalize(days, seconds, us) ==
    LET s1 == seconds + (us \div 1000000)
        u1 == us % 1000000
        d1 == days + (s1 \div 86400)
        s2 == s1 % 86400
    IN  TimeDelta(d1, s2, u1)

\* datetime - datetime
DtSub(a, b) ==
    Normalize(ToOrdinal(a.year, a.month, a.day) - ToOrdinal(b.year, b.month, b.day),
              SecondsOf(a) - SecondsOf(b),
              a.microsecond - b.microsecond)

\* datetime + timedelta: [ok, dt]; not ok is OverflowError (date value out of range)
DtAdd(a, td) ==
    LET t == Normalize(ToOrdinal(a.year, a.month, a.day) + td.days,
                       SecondsOf(a) + td.seconds,
                       a.microsecond + td.microseconds)
    IN  IF t.days < 1 \/ t.days > MaxOrdinal
        THEN [ok |-> FALSE, dt |-> NoDateTime]
        ELSE LET ymd == FromOrdinal(t.days)
             IN  [ok |-> TRUE,
                  dt |-> DateTime(ymd.year, ymd.month, ymd.day,
                                  t.seconds \div 3600, (t.seconds % 3600) \div 60,
                                  t.seconds % 60, t.microseconds)]

\* datetime.replace(year=y, month=m): [ok, dt]; not ok is ValueError
DtReplace(a, y, m) ==
    IF ValidDate(y, m, a.day)
    THEN [ok |-> TRUE, dt |-> [a EXCEPT !.year = y, !.month = m]]
    ELSE [ok |-> FALSE, dt |-> NoDateTime]

\* a <= b
DtLeq(a, b) ==
    LET oa == ToOrdinal(a.year, a.month, a.day)
        ob == ToOrdinal(b.year, b.month, b.day)
    IN  \/ oa < ob
        \/ oa = ob /\ SecondsOf(a) < SecondsOf(b)
        \/ oa = ob /\ SecondsOf(a) = SecondsOf(b) /\ a.microsecond <= b.microsecond

\* a variant of lines 95-98 that leaves the day out: strftime('%Y%m')
FormatYearMonth(dt) == Pad(dt.year, 4) \o Pad(dt.month, 2)

\* strftime('%Y%m%d')
FormatYmd(dt) == Pad(dt.year, 4) \o Pad(dt.month, 2) \o Pad(dt.day, 2)

\* strftime('%Y-%m-%dT%H:%M:%S'): the microseconds are not written
FormatIso(dt) ==
    Pad(dt.year, 4) \o "-" \o Pad(dt.month, 2) \o "-" \o Pad(dt.day, 2) \o "T"
    \o Pad(dt.hour, 2) \o ":" \o Pad(dt.minute, 2) \o ":" \o Pad(dt.second, 2)

(***************************************************************************)
(* datetime.strptime for the three formats of parse_datetime.  A field is  *)
(* a run of digits of the width and range the format directive accepts.    *)
(***************************************************************************)
NumField(s, minw, maxw, lo, hi) ==
    /\ Len(s) >= minw /\ Len(s) <= maxw
    /\ AllDigits(s)
    /\ ToInt(s) >= lo /\ ToInt(s) <= hi

\* '%Y-%m-%d'
DateOk(s) ==
    LET p == Split(s, "-")
    IN  /\ Len(p) = 3
        /\ NumField(p[1], 4, 4, 1, 9999)
        /\ NumField(p[2], 1, 2, 1, 12)
        /\ NumField(p[3], 1, 2, 1, 31)
        /\ ValidDate(ToInt(p[1]), ToInt(p[2]), ToInt(p[3]))

\* '%H:%M:%S'
TimeOk(s) ==
    LET p == Split(s, ":")
    IN  /\ Len(p) = 3
        /\ NumField(p[1], 1, 2, 0, 23)
        /\ NumField(p[2], 1, 2, 0, 59)
        /\ NumField(p[3], 1, 2, 0, 59)

\* '%f': one to six digits, read as a decimal fraction of a second
RECURSIVE PadRight(_, _)
PadRight(s, w) == IF Len(s) >= w THEN s ELSE PadRight(s \o "0", w)

FracOk(s) == Len(s) >= 1 /\ Len(s) <= 6 /\ AllDigits(s)

MakeDateTime(date, time, frac) ==
    LET d == Split(date, "-")
        t == Split(time, ":")
    IN  DateTime(ToInt(d[1]), ToInt(d[2]), ToInt(d[3]),
                 ToInt(t[1]), ToInt(t[2]), ToInt(t[3]),
                 ToInt(PadRight(frac, 6)))

\* strptime(s, '%Y-%m-%dT%H:%M:%S')
StrpSeconds(s) ==
    LET p == Split(s, "T")
    IN  IF Len(p) = 2 /\ DateOk(p[1]) /\ TimeOk(p[2])
        THEN [ok |-> TRUE, dt |-> MakeDateTime(p[1], p[2], "0")]
        ELSE [ok |-> FALSE, dt |-> NoDateTime]

\* strptime(s, '%Y-%m-%d')
StrpDate(s) ==
    IF DateOk(s)
    THEN [ok |-> TRUE, dt |-> MakeDateTime(s, "0:0:0", "0")]
    ELSE [ok |-> FALSE, dt |-> NoDateTime]

\* strptime(s, '%Y-%m-%dT%H:%M:%S.%f')
StrpFraction(s) ==
    LET p == Split(s, "T")
        q == IF Len(p) = 2 THEN Split(p[2], ".") ELSE <<>>
    IN  IF Len(p) = 2 /\ Len(q) = 2 /\ DateOk(p[1]) /\ TimeOk(q[1]) /\ FracOk(q[2])
        THEN [ok |-> TRUE, dt |-> MakeDateTime(p[1], q[1], q[2])]
        ELSE [ok |-> FALSE, dt |-> NoDateTime]

(***************************************************************************)
(* Values of a record's fields: a field is absent, None, text, a number or *)
(* a boolean.  [t, s]: the type tag and the text (of a number, its digits).*)
(***************************************************************************)
Absent == [t |-> "absent", s |-> ""]
None == [t |-> "null", s |-> ""]
Str(s) == [t |-> "str", s |-> s]
Num(s) == [t |-> "int", s |-> s]
True == [t |-> "bool", s |-> "true"]

IsStr(v) == v.t = "str"

\* Python truthiness: bool(v)
Truthy(v) ==
    CASE v.t = "str" -> v.s # ""
      [] v.t = "int" -> ToInt(v.s) # 0
      [] v.t = "bool" -> v.s = "true"
      [] OTHER -> FALSE

\* d.get(key, default), the field being the value stored under key
Get(field, default) == IF field.t = "absent" THEN default ELSE field

(***************************************************************************)
(* parse_datetime: [res, dt] with res "ok", "none" (None is returned),     *)
(* "ValueError" or "TypeError" (the argument is not text).                 *)
(***************************************************************************)
StripOffset(s) ==
    IF HasChar(s, "+") THEN Split(s, "+")[1]
    ELSE IF HasChar(s, "Z") THEN RemoveChar(s, "Z")
    ELSE s

parse_datetime(v) ==
    IF ~Truthy(v) THEN [res |-> "none", dt |-> NoDateTime]
    ELSE IF ~IsStr(v) THEN [res |-> "TypeError", dt |-> NoDateTime]
    ELSE LET s == StripOffset(v.s)
         IN  IF StrpSeconds(s).ok THEN [res |-> "ok", dt |-> StrpSeconds(s).dt]
             ELSE IF StrpDate(s).ok THEN [res |-> "ok", dt |-> StrpDate(s).dt]
             ELSE IF StrpFraction(s).ok THEN [res |-> "ok", dt |-> StrpFraction(s).dt]
             ELSE [res |-> "ValueError", dt |-> NoDateTime]

(***************************************************************************)
(* Event records.  A record (a Python dict) is modelled by the values of   *)
(* the keys the program reads or writes and of one key (location) that it  *)
(* passes through; a key the dict does not hold has the value Absent.  An  *)
(* entry of the input list is a dict, null, or something else (text).      *)
(***************************************************************************)
Event(title, st, en, rec, red, uid, loc) ==
    [title |-> title, startTime |-> st, endTime |-> en, recurrence |-> rec,
     recurrenceEndDate |-> red, iCalUld |-> uid, location |-> loc,
     isRecurringInstance |-> Absent, recurringMasterId |-> Absent]

EmptyDict == Event(Absent, Absent, Absent, Absent, Absent, Absent, Absent)

Dict(e) == [kind |-> "dict", f |-> e]
NullEntry == [kind |-> "null", f |-> EmptyDict]
TextEntry == [kind |-> "other", f |-> EmptyDict]

\* bool(entry): None and the empty dict are falsy
EntryTruthy(entry) == entry.kind = "other" \/ (entry.kind = "dict" /\ entry.f # EmptyDict)

\* str(v) as an f-string writes it
StrOf(v) == v.s

\* the values uuid.uuid4() may give, cut to 8 characters
Uuids == {"1a2b3c4d", "9f8e7d6c"}

max_instances == 100

VARIABLES
    mode,             \* "batch": expand_calendar_events is called; "direct": generate_recurring_instances
    input_data,       \* the list of entries given to expand_calendar_events
    pc,               \* where the program is
    idx,              \* the position of the batch loop in input_data
    expanded_events,  \* the output list of expand_calendar_events
    recurring_count,
    gri_results,      \* per position of input_data, the list generate_recurring_instances returned
    master_event,     \* the argument of generate_recurring_instances
    recurrence,       \* its locals
    start_time_str,
    event_duration,
    recurrence_end,
    current_date,
    instance_count,
    instances,
    ret,              \* the list generate_recurring_instances returned
    outcome,          \* the return statement it took
    exc,              \* the exception that left the program, "" if none
    content,          \* the text of the input file
    array_text,       \* the event array's own text, which content holds
    start_pos,        \* locals of the extraction in main
    json_content,
    scan,
    bracket_count,
    end_pos,
    data              \* what json.loads returned

expandVars == <<mode, input_data, pc, idx, expanded_events, recurring_count, gri_results,
                master_event, recurrence, start_time_str, event_duration, recurrence_end,
                current_date, instance_count, instances, ret, outcome, exc>>

extractVars == <<content, array_text, start_pos, json_content, scan, bracket_count,
                 end_pos, data>>

vars == <<expandVars, extractVars>>

NoDuration == TimeDelta(0, 0, 0)

\* the locals of generate_recurring_instances outside a call
NoCall ==
    /\ recurrence' = ""
    /\ start_time_str' = ""
    /\ event_duration' = NoDuration
    /\ recurrence_end' = NoDateTime
    /\ current_date' = NoDateTime
    /\ instance_count' = 0
    /\ instances' = <<>>

(***************************************************************************)
(* generate_recurring_instances                                            *)
(***************************************************************************)
\* line 49: master_event.get('recurrence', '')
RecurrenceField(e) == Get(e.recurrence, Str(""))

\* lines 53-57: all([start_time_str, end_time_str, recurrence_end_str])
RequiredPresent(e) ==
    /\ Truthy(Get(e.startTime, Str("")))
    /\ Truthy(Get(e.endTime, Str("")))
    /\ Truthy(Get(e.recurrenceEndDate, Str("")))

\* lines 62-64: the three fields parse
FieldsParse(e) ==
    /\ parse_datetime(e.startTime).res = "ok"
    /\ parse_datetime(e.endTime).res = "ok"
    /\ parse_datetime(e.recurrenceEndDate).res = "ok"

\* lines 82-87
TzSuffix(s) ==
    IF HasChar(s, "+") THEN "+" \o Split(s, "+")[2]
    ELSE IF HasChar(s, "Z") THEN "Z"
    ELSE "+00:00"

\* lines 108-122: [kind, dt]; kind "ok", "error" (an exception) or "break"
\* line 109: timedelta(weeks=1)
WeeklyStep == TimeDelta(7, 0, 0)

\* line 111: timedelta(days=1)
DailyStep == TimeDelta(1, 0, 0)

NextOccurrence(rec, d) ==
    LET res(r) == [kind |-> IF r.ok THEN "ok" ELSE "error", dt |-> r.dt]
    IN  CASE rec = "weekly" -> res(DtAdd(d, WeeklyStep))
          [] rec = "daily" -> res(DtAdd(d, DailyStep))
          [] rec = "monthly" ->
                IF d.month = 12 THEN res(DtReplace(d, d.year + 1, 1))
                ELSE res(DtReplace(d, d.year, d.month + 1))
          [] rec = "yearly" -> res(DtReplace(d, d.year + 1, d.month))
          [] OTHER -> [kind |-> "break", dt |-> d]

\* lines 92-98: [ok, s]; not ok is the AttributeError of a title that is not text
InstanceUid(e, d, u) ==
    IF ~Truthy(e.iCalUld)
    THEN LET title == Get(e.title, Str("event"))
         IN  IF ~IsStr(title) THEN [ok |-> FALSE, s |-> ""]
             ELSE [ok |-> TRUE,
                   s |-> ReplaceChar(Lower(title.s), " ", "_") \o "_" \o FormatYmd(d)
                         \o "_" \o u]
    ELSE [ok |-> TRUE, s |-> StrOf(e.iCalUld) \o "_" \o FormatYmd(d)]

\* line 102: master_event.get('iCalUld', f"master_{str(uuid.uuid4())[:8]}")
MasterId(e, u) == Get(e.iCalUld, Str("master_" \o u))

\* lines 76-102: the instance of e that starts at d and ends at dend
MakeInstance(e, d, dend, tz, uid, mid) ==
    [e EXCEPT !.startTime = Str(FormatIso(d) \o tz),
              !.endTime = Str(FormatIso(dend) \o tz),
              !.iCalUld = Str(uid),
              !.isRecurringInstance = True,
              !.recurringMasterId = mid]

\* a variant of line 129 that returns the instances built so far, as line 125 does
ErrorResultKeepsBuilt(m, built) == built

\* line 129: return [master_event], whatever instances were built
ErrorResult(m, built) == <<m>>

\* a return statement of generate_recurring_instances
Return(list, how) ==
    /\ ret' = list
    /\ outcome' = how
    /\ pc' = "gri_return"
    /\ NoCall

\* a variant of line 74 whose cap is off by one
LoopConditionOffByOne ==
    DtLeq(current_date, recurrence_end) /\ instance_count <= max_instances

\* line 74
LoopCondition == DtLeq(current_date, recurrence_end) /\ instance_count < max_instances

\* line 49 raises: recurrence is present and is not text
GriRaise ==
    /\ pc = "gri_enter"
    /\ ~IsStr(RecurrenceField(master_event))
    /\ pc' = "raised"
    /\ exc' = "AttributeError"
    /\ UNCHANGED <<mode, input_data, idx, expanded_events, recurring_count, gri_results,
                   master_event, recurrence, start_time_str, event_duration,
                   recurrence_end, current_date, instance_count, instances, ret, outcome>>

\* lines 49-51
GriNotRecurring ==
    /\ pc = "gri_enter"
    /\ IsStr(RecurrenceField(master_event))
    /\ LET rec == Lower(RecurrenceField(master_event).s)
       IN  rec = "none" \/ rec = ""
    /\ Return(<<master_event>>, "not_recurring")
    /\ UNCHANGED <<mode, input_data, idx, expanded_events, recurring_count, gri_results,
                   master_event, exc>>

\* lines 53-59
GriMissingFields ==
    /\ pc = "gri_enter"
    /\ IsStr(RecurrenceField(master_event))
    /\ LET rec == Lower(RecurrenceField(master_event).s)
       IN  ~(rec = "none" \/ rec = "")
    /\ ~RequiredPresent(master_event)
    /\ Return(<<master_event>>, "missing_fields")
    /\ UNCHANGED <<mode, input_data, idx, expanded_events, recurring_count, gri_results,
                   master_event, exc>>

\* lines 61-64, 127-129: a field does not parse
GriParseError ==
    /\ pc = "gri_enter"
    /\ IsStr(RecurrenceField(master_event))
    /\ LET rec == Lower(RecurrenceField(master_event).s)
       IN  ~(rec = "none" \/ rec = "")
    /\ RequiredPresent(master_event)
    /\ ~FieldsParse(master_event)
    /\ Return(ErrorResult(master_event, <<>>), "error")
    /\ UNCHANGED <<mode, input_data, idx, expanded_events, recurring_count, gri_results,
                   master_event, exc>>

\* lines 61-72: the fields parse and the loop starts
GriStartLoop ==
    /\ pc = "gri_enter"
    /\ IsStr(RecurrenceField(master_event))
    /\ LET rec == Lower(RecurrenceField(master_event).s)
       IN  /\ ~(rec = "none" \/ rec = "")
           /\ recurrence' = rec
    /\ RequiredPresent(master_event)
    /\ FieldsParse(master_event)
    /\ LET start_datetime == parse_datetime(master_event.startTime).dt
           end_datetime == parse_datetime(master_event.endTime).dt
       IN  /\ event_duration' = DtSub(end_datetime, start_datetime)
           /\ current_date' = start_datetime
    /\ start_time_str' = master_event.startTime.s
    /\ recurrence_end' = parse_datetime(master_event.recurrenceEndDate).dt
    /\ instance_count' = 0
    /\ instances' = <<>>
    /\ pc' = "gri_loop"
    /\ UNCHANGED <<mode, input_data, idx, expanded_events, recurring_count, gri_results,
                   master_event, ret, outcome, exc>>

\* lines 74-122: one turn of the loop
GriIterate ==
    /\ pc = "gri_loop"
    /\ LoopCondition
    /\ \E u1, u2 \in Uuids :
         LET instance_end == DtAdd(current_date, event_duration)
             uid == InstanceUid(master_event, current_date, u1)
             instance == MakeInstance(master_event, current_date, instance_end.dt,
                                      TzSuffix(start_time_str), uid.s,
                                      MasterId(master_event, u2))
             next == NextOccurrence(recurrence, current_date)
         IN  IF ~instance_end.ok \/ ~uid.ok \/ next.kind = "error"
             THEN Return(ErrorResult(master_event, instances), "error")
             ELSE IF next.kind = "break"
             THEN Return(Append(instances, instance), "expanded")
             ELSE /\ instances' = Append(instances, instance)
                  /\ instance_count' = instance_count + 1
                  /\ current_date' = next.dt
                  /\ UNCHANGED <<pc, recurrence, start_time_str, event_duration,
                                 recurrence_end, ret, outcome>>
    /\ UNCHANGED <<mode, input_data, idx, expanded_events, recurring_count, gri_results,
                   master_event, exc>>

\* lines 74, 124-125: the loop ends
GriLoopExit ==
    /\ pc = "gri_loop"
    /\ ~LoopCondition
    /\ Return(instances, "expanded")
    /\ UNCHANGED <<mode, input_data, idx, expanded_events, recurring_count, gri_results,
                   master_event, exc>>

(***************************************************************************)
(* expand_calendar_events                                                  *)
(***************************************************************************)
\* line 140
Skipped(entry) == ~EntryTruthy(entry) \/ entry.kind # "dict"

\* line 145, recurrence being the lowered text of line 143
IsRecurring(e) ==
    LET rec == Lower(RecurrenceField(e).s)
    IN  rec # "" /\ rec # "none"

\* lines 139-141: the entry is skipped
BatchSkip ==
    /\ pc = "batch"
    /\ idx <= Len(input_data)
    /\ Skipped(input_data[idx])
    /\ idx' = idx + 1
    /\ UNCHANGED <<mode, input_data, pc, expanded_events, recurring_count, gri_results,
                   master_event, recurrence, start_time_str, event_duration,
                   recurrence_end, current_date, instance_count, instances, ret,
                   outcome, exc>>

\* line 143 raises: recurrence is present and is not text
BatchRaise ==
    /\ pc = "batch"
    /\ idx <= Len(input_data)
    /\ ~Skipped(input_data[idx])
    /\ ~IsStr(RecurrenceField(input_data[idx].f))
    /\ pc' = "raised"
    /\ exc' = "AttributeError"
    /\ UNCHANGED <<mode, input_data, idx, expanded_events, recurring_count, gri_results,
                   master_event, recurrence, start_time_str, event_duration,
                   recurrence_end, current_date, instance_count, instances, ret,
                   outcome>>

\* lines 145-147: generate_recurring_instances is called
BatchCall ==
    /\ pc = "batch"
    /\ idx <= Len(input_data)
    /\ ~Skipped(input_data[idx])
    /\ IsStr(RecurrenceField(input_data[idx].f))
    /\ IsRecurring(input_data[idx].f)
    /\ recurring_count' = recurring_count + 1
    /\ master_event' = input_data[idx].f
    /\ pc' = "gri_enter"
    /\ UNCHANGED <<mode, input_data, idx, expanded_events, gri_results, recurrence,
                   start_time_str, event_duration, recurrence_end, current_date,
                   instance_count, instances, ret, outcome, exc>>

\* lines 149-150: the event is appended as it is
BatchAppend ==
    /\ pc = "batch"
    /\ idx <= Len(input_data)
    /\ ~Skipped(input_data[idx])
    /\ IsStr(RecurrenceField(input_data[idx].f))
    /\ ~IsRecurring(input_data[idx].f)
    /\ expanded_events' = Append(expanded_events, input_data[idx].f)
    /\ idx' = idx + 1
    /\ UNCHANGED <<mode, input_data, pc, recurring_count, gri_results, master_event,
                   recurrence, start_time_str, event_duration, recurrence_end,
                   current_date, instance_count, instances, ret, outcome, exc>>

\* a variant of line 148 that puts the instances in front of the output
ExtendInFront(list, more) == more \o list

\* line 148: expanded_events.extend(instances)
Extend(list, more) == list \o more

\* lines 147-148: generate_recurring_instances returns to the loop
BatchResume ==
    /\ pc = "gri_return"
    /\ mode = "batch"
    /\ expanded_events' = Extend(expanded_events, ret)
    /\ gri_results' = [gri_results EXCEPT ![idx] = ret]
    /\ idx' = idx + 1
    /\ pc' = "batch"
    /\ master_event' = EmptyDict
    /\ ret' = <<>>
    /\ outcome' = ""
    /\ UNCHANGED <<mode, input_data, recurring_count, recurrence, start_time_str,
                   event_duration, recurrence_end, current_date, instance_count,
                   instances, exc>>

\* line 155
BatchReturn ==
    /\ pc = "batch"
    /\ idx > Len(input_data)
    /\ pc' = "done"
    /\ UNCHANGED <<mode, input_data, idx, expanded_events, recurring_count, gri_results,
                   master_event, recurrence, start_time_str, event_duration,
                   recurrence_end, current_date, instance_count, instances, ret,
                   outcome, exc>>

\* generate_recurring_instances returns to a caller that called it directly
DirectReturn ==
    /\ pc = "gri_return"
    /\ mode = "direct"
    /\ pc' = "done"
    /\ UNCHANGED <<mode, input_data, idx, expanded_events, recurring_count, gri_results,
                   master_event, recurrence, start_time_str, event_duration,
                   recurrence_end, current_date, instance_count, instances, ret,
                   outcome, exc>>

(***************************************************************************)
(* The inputs: master records that take each path of the expansion, and    *)
(* lists of entries for the batch loop.                                    *)
(***************************************************************************)
Master(rec, st, en, red) ==
    Event(Str("Team Sync"), Str(st), Str(en), Str(rec), Str(red), Str("abc123"),
          Str("Room 1"))

\* the weekly example of the specification's testable properties
WeeklyExample ==
    Master("weekly", "2025-07-01T09:00:00+00:00", "2025-07-01T10:00:00+00:00", "2025-07-22")

DailyBase == Master("daily", "2025-03-01T08:00:00", "2025-03-01T09:00:00", "2025-03-02T08:00:00")

ExpandingMasters ==
    { WeeklyExample,
      Master("weekly", "2025-07-01T09:00:00+00:00", "2025-07-01T10:00:00+00:00",
             "2025-07-22T09:00:00"),
      Master("WEEKLY", "2025-07-01T09:00:00Z", "2025-07-01T09:30:00Z", "2025-07-15T23:59:59Z"),
      DailyBase,
      Master("daily", "2025-01-01T08:00:00Z", "2025-01-01T08:15:00Z", "2026-01-01"),
      Master("daily", "2025-03-01T08:00:00", "2025-03-01T09:00:00", "2025-06-07T08:00:00"),
      Master("daily", "2025-03-01T08:00:00", "2025-03-01T09:00:00", "2025-06-08T08:00:00"),
      Master("daily", "2025-03-01T08:00:00", "2025-03-01T09:00:00", "2025-06-09T08:00:00"),
      Master("weekly", "2025-01-06T08:00:00+01:00", "2025-01-06T09:00:00+01:00", "2030-01-01"),
      Master("monthly", "2020-01-15T08:00:00", "2020-01-15T09:00:00", "2035-01-01"),
      Master("daily", "2025-07-10T09:00:00", "2025-07-10T10:00:00", "2025-07-01"),
      Master("daily", "2025-07-10T09:00:00", "2025-07-10T10:00:00", "2025-07-10"),
      Master("weekly", "2025-07-10T00:00:00", "2025-07-10T01:00:00", "2025-07-10"),
      Master("monthly", "2025-11-15T09:00:00+02:00", "2025-11-15T11:00:00+02:00",
             "2026-02-15T09:00:00"),
      Master("yearly", "2025-03-10", "2025-03-11", "2027-03-10"),
      Master("Yearly", "2024-02-28T22:00:00", "2024-02-29T02:00:00", "2026-12-31"),
      Master("biweekly", "2025-07-01T09:00:00", "2025-07-01T10:00:00", "2025-09-01"),
      Master("daily", "2025-07-01T09:00:00.500000", "2025-07-01T10:00:00.250000",
             "2025-07-03T12:00:00"),
      Master("daily", "2025-07-01T09:00:00.250000", "2025-07-01T10:00:00.250000",
             "2025-07-02T12:00:00"),
      Master("daily", "2025-07-01", "2025-07-02", "2025-07-03"),
      Master("daily", "2025-07-01T10:00:00", "2025-07-01T09:00:00", "2025-07-02T23:00:00"),
      Master("daily", "2025-12-30T23:30:00", "2025-12-31T00:30:00", "2026-01-01T23:30:00") }

\* a step or a sum leaves the calendar, or lands on a day the month does not have
FailingMasters ==
    { Master("monthly", "2025-01-31T09:00:00", "2025-01-31T10:00:00", "2025-04-30"),
      Master("monthly", "2025-03-31T09:00:00", "2025-03-31T10:00:00", "2025-03-31T09:00:00"),
      Master("yearly", "2024-02-29T09:00:00", "2024-02-29T10:00:00", "2028-03-01"),
      Master("daily", "9999-12-30T09:00:00", "9999-12-30T10:00:00", "9999-12-31T23:00:00"),
      Master("daily", "9999-12-30T23:30:00", "9999-12-31T00:30:00", "9999-12-31T23:59:59"),
      Master("yearly", "9998-06-01T09:00:00", "9998-06-01T10:00:00", "9999-12-31") }

NotRecurringMasters ==
    { [DailyBase EXCEPT !.recurrence = r] :
        r \in {Absent, Str(""), Str("none"), Str("None"), Str("NONE")} }

\* recurrence is present and is not text
BadRecurrenceMasters ==
    { [DailyBase EXCEPT !.recurrence = r] : r \in {None, Num("7")} }

MissingFieldMasters ==
    { [DailyBase EXCEPT !.startTime = Absent],
      [DailyBase EXCEPT !.startTime = Str("")],
      [DailyBase EXCEPT !.endTime = None],
      [DailyBase EXCEPT !.endTime = Absent],
      [DailyBase EXCEPT !.recurrenceEndDate = Absent],
      [DailyBase EXCEPT !.recurrenceEndDate = Num("0")],
      [WeeklyExample EXCEPT !.recurrenceEndDate = Absent] }

UnparsableMasters ==
    { [DailyBase EXCEPT !.startTime = Str("tomorrow")],
      [DailyBase EXCEPT !.startTime = Num("5")],
      [DailyBase EXCEPT !.endTime = Str("2025/03/01 09:00")],
      [DailyBase EXCEPT !.endTime = Str("2025-03-01T24:00:00")],
      [DailyBase EXCEPT !.recurrenceEndDate = Str("2025-02-30")],
      [DailyBase EXCEPT !.recurrenceEndDate = Str("+02:00")],
      [DailyBase EXCEPT !.recurrenceEndDate = True] }

\* masters without an identifier, or with one that is not text
IdMasters ==
    { [DailyBase EXCEPT !.iCalUld = Absent],
      [DailyBase EXCEPT !.iCalUld = Str("")],
      [DailyBase EXCEPT !.iCalUld = None],
      [DailyBase EXCEPT !.iCalUld = Num("42")],
      [DailyBase EXCEPT !.iCalUld = Absent, !.title = Absent],
      [DailyBase EXCEPT !.iCalUld = Absent, !.title = None],
      [WeeklyExample EXCEPT !.iCalUld = Absent, !.location = Absent] }

Masters ==
    ExpandingMasters \cup FailingMasters \cup NotRecurringMasters \cup BadRecurrenceMasters
    \cup MissingFieldMasters \cup UnparsableMasters \cup IdMasters \cup {EmptyDict}

\* the longest list of entries given to the batch loop
MaxBatchLen == 2

BatchEntries ==
    { NullEntry, TextEntry, Dict(EmptyDict),
      Dict(Event(Str("Lunch"), Str("2025-07-02T12:00:00"), Str("2025-07-02T13:00:00"),
                 Absent, Absent, Str("lunch1"), Absent)),
      Dict([DailyBase EXCEPT !.recurrence = Str("None")]),
      Dict(DailyBase),
      Dict([WeeklyExample EXCEPT !.iCalUld = Str("w9")]),
      Dict([DailyBase EXCEPT !.recurrenceEndDate = Str("2025-02-30")]),
      Dict(Master("daily", "2025-07-10T09:00:00", "2025-07-10T10:00:00", "2025-07-01")) }

BatchInputs ==
    UNION { [1..n -> BatchEntries] : n \in 0..MaxBatchLen }
    \cup { <<Dict(m)>> : m \in Masters }
    \cup { <<Dict(DailyBase), Dict(m)>> : m \in BadRecurrenceMasters }

DirectInputs == { <<Dict(m)>> : m \in Masters }

NoResults(list) == [k \in 1..Len(list) |-> <<>>]

\* the extraction is not part of the expansion
NoExtraction ==
    /\ content = ""
    /\ array_text = ""
    /\ start_pos = 0
    /\ json_content = ""
    /\ scan = 0
    /\ bracket_count = 0
    /\ end_pos = 0
    /\ data = [ok |-> FALSE, val |-> <<>>]

Init ==
    /\ mode \in {"batch", "direct"}
    /\ input_data \in (IF mode = "batch" THEN BatchInputs ELSE DirectInputs)
    /\ pc = (IF mode = "batch" THEN "batch" ELSE "gri_enter")
    /\ idx = 1
    /\ expanded_events = <<>>
    /\ recurring_count = 0
    /\ gri_results = NoResults(input_data)
    /\ master_event = (IF mode = "batch" THEN EmptyDict ELSE input_data[1].f)
    /\ recurrence = ""
    /\ start_time_str = ""
    /\ event_duration = NoDuration
    /\ recurrence_end = NoDateTime
    /\ current_date = NoDateTime
    /\ instance_count = 0
    /\ instances = <<>>
    /\ ret = <<>>
    /\ outcome = ""
    /\ exc = ""
    /\ NoExtraction

Next ==
    \/ (GriRaise /\ UNCHANGED extractVars)
    \/ (GriNotRecurring /\ UNCHANGED extractVars)
    \/ (GriMissingFields /\ UNCHANGED extractVars)
    \/ (GriParseError /\ UNCHANGED extractVars)
    \/ (GriStartLoop /\ UNCHANGED extractVars)
    \/ (GriIterate /\ UNCHANGED extractVars)
    \/ (GriLoopExit /\ UNCHANGED extractVars)
    \/ (BatchSkip /\ UNCHANGED extractVars)
    \/ (BatchRaise /\ UNCHANGED extractVars)
    \/ (BatchCall /\ UNCHANGED extractVars)
    \/ (BatchAppend /\ UNCHANGED extractVars)
    \/ (BatchResume /\ UNCHANGED extractVars)
    \/ (BatchReturn /\ UNCHANGED extractVars)
    \/ (DirectReturn /\ UNCHANGED extractVars)

Spec == Init /\ [][Next]_vars

(***************************************************************************)
(* Properties of generate_recurring_instances.  They are stated on the     *)
(* state in which it has returned: ret is the returned list, master_event  *)
(* its argument and outcome the return statement taken.                    *)
(***************************************************************************)
Returned == pc = "gri_return"
Expanded == pc = "gri_return" /\ outcome = "expanded"

ParsedStart(e) == parse_datetime(e.startTime).dt
ParsedEnd(e) == parse_datetime(e.endTime).dt

\* C1: generate_recurring_instances returns a list of at least one record for
\* every master, whatever the order of startTime and recurrenceEndDate.
C1_AtLeastOneRecord == Returned => Len(ret) >= 1

\* C2: no record aborts the batch: neither expand_calendar_events nor
\* generate_recurring_instances raises, whatever the fields of a record hold.
C2_NeverRaises == pc # "raised" /\ exc = ""

\* C3: the weekly example (2025-07-01 09:00-10:00, recurrenceEndDate 2025-07-22)
\* expands to exactly the 4 instances of 07-01, 07-08, 07-15 and 07-22, of 1 hour each.
C3_WeeklyExampleHasFourInstances ==
    (Returned /\ master_event = WeeklyExample) =>
        /\ Len(ret) = 4
        /\ ret[1].startTime = Str("2025-07-01T09:00:00+00:00")
        /\ ret[2].startTime = Str("2025-07-08T09:00:00+00:00")
        /\ ret[3].startTime = Str("2025-07-15T09:00:00+00:00")
        /\ ret[4].startTime = Str("2025-07-22T09:00:00+00:00")
        /\ \A k \in 1..4 : DtSub(ParsedEnd(ret[k]), ParsedStart(ret[k])) = TimeDelta(0, 3600, 0)

\* C4: every instance of an expanded master lasts as long as the master, both
\* durations computed from the timestamps parsed back from the records' text.
C4_DurationPreserved ==
    Expanded =>
        \A k \in 1..Len(ret) :
            DtSub(ParsedEnd(ret[k]), ParsedStart(ret[k]))
                = DtSub(ParsedEnd(master_event), ParsedStart(master_event))

\* C5: generate_recurring_instances returns at most 100 records, and the loop
\* never holds more than 100 instances, however far recurrenceEndDate lies.
C5_AtMostHundredRecords ==
    /\ Len(instances) <= 100
    /\ Returned => Len(ret) <= 100

\* the loop has built 100 instances and recurrenceEndDate is not yet reached
C5_CapReached ==
    /\ pc = "gri_loop"
    /\ Len(instances) = 100
    /\ DtLeq(current_date, recurrence_end)

\* the cases in which C6 says a master is not expanded, read off the master
C6_NotRecurringCase(m) ==
    \/ m.recurrence = Absent
    \/ IsStr(m.recurrence) /\ Lower(m.recurrence.s) \in {"", "none"}

C6_MissingCase(m) ==
    \E v \in {m.startTime, m.endTime, m.recurrenceEndDate} :
        v = Absent \/ v = Str("") \/ v = None

C6_UnparsableCase(m) ==
    \E v \in {m.startTime, m.endTime, m.recurrenceEndDate} :
        IsStr(v) /\ v.s # "" /\ parse_datetime(v).res = "ValueError"

\* C6: a master that is not expanded is returned alone and unchanged: when it
\* is not recurring, lacks a field, holds a date that does not parse, or a step
\* fails after instances were built, the result is exactly [master].
C6_PassThroughUnchanged ==
    (/\ Returned
     /\ \/ outcome # "expanded"
        \/ C6_NotRecurringCase(master_event)
        \/ C6_MissingCase(master_event)
        \/ C6_UnparsableCase(master_event))
    => /\ ret = <<input_data[idx].f>>
       /\ outcome # "expanded"

\* a monthly step onto a day the next month does not have, one instance being built
C6_StepFailedMidLoop ==
    /\ Returned
    /\ outcome = "error"
    /\ master_event = Master("monthly", "2025-01-31T09:00:00", "2025-01-31T10:00:00",
                             "2025-04-30")
    /\ ret = <<master_event>>

\* the calendar day of an instance, as its startTime gives it
C7_StartDay(e) ==
    LET d == ParsedStart(e) IN ToOrdinal(d.year, d.month, d.day)

C7_DaySuffix(e) == "_" \o SubSeq(e.startTime.s, 1, 4) \o SubSeq(e.startTime.s, 6, 7)
                       \o SubSeq(e.startTime.s, 9, 10)

\* C7: the identifiers of the instances of one master are pairwise distinct;
\* with a master identifier each is that identifier followed by _YYYYMMDD of
\* the instance's start date, and the start dates are strictly increasing days.
C7_DistinctIdentifiers ==
    Expanded =>
        /\ \A j, k \in 1..Len(ret) : j # k => ret[j].iCalUld # ret[k].iCalUld
        /\ \A k \in 1..(Len(ret) - 1) : C7_StartDay(ret[k]) < C7_StartDay(ret[k + 1])
        /\ Truthy(master_event.iCalUld) =>
              \A k \in 1..Len(ret) :
                  ret[k].iCalUld = Str(StrOf(master_event.iCalUld) \o C7_DaySuffix(ret[k]))

\* a daily master with an identifier has expanded to several instances
C7_SeveralInstances ==
    /\ Expanded
    /\ Len(ret) >= 3
    /\ Lower(master_event.recurrence.s) = "daily"
    /\ master_event.iCalUld = Str("abc123")
    /\ ret[2].iCalUld = Str("abc123_20250102")

\* C10: the instances of one master are all marked isRecurringInstance and share
\* one recurringMasterId: the master's identifier, or one synthesized id.
C10_SharedMasterId ==
    Expanded =>
        /\ \A k \in 1..Len(ret) : ret[k].isRecurringInstance = True
        /\ \A j, k \in 1..Len(ret) : ret[j].recurringMasterId = ret[k].recurringMasterId
        /\ Truthy(master_event.iCalUld) =>
              \A k \in 1..Len(ret) : ret[k].recurringMasterId = master_event.iCalUld

(***************************************************************************)
(* Properties of expand_calendar_events, stated on its return.             *)
(***************************************************************************)
RECURSIVE Flatten(_)
Flatten(lists) == IF Len(lists) = 0 THEN <<>> ELSE Head(lists) \o Flatten(Tail(lists))

BatchDone == mode = "batch" /\ pc = "done"

\* the block of the k-th entry as C8 states it
C8_StatedBlock(k) ==
    LET entry == input_data[k]
    IN  IF entry.kind # "dict" THEN <<>>
        ELSE IF entry.f.recurrence # Absent /\ Lower(entry.f.recurrence.s) \notin {"", "none"}
        THEN gri_results[k]
        ELSE <<entry.f>>

\* the block of the k-th entry, a record without any key having the empty block
C8_Block(k) ==
    LET entry == input_data[k]
    IN  IF entry.kind # "dict" \/ entry.f = EmptyDict THEN <<>>
        ELSE IF entry.f.recurrence # Absent /\ Lower(entry.f.recurrence.s) \notin {"", "none"}
        THEN gri_results[k]
        ELSE <<entry.f>>

IsSpace(c) == c = " " \/ c = "\n" \/ c = "\t"

RECURSIVE SkipSpace(_, _)
SkipSpace(s, i) ==
    IF i <= Len(s) /\ IsSpace(CharAt(s, i)) THEN SkipSpace(s, i + 1) ELSE i

\* content.strip().startswith('[')
StartsWithBracket(s) ==
    LET i == SkipSpace(s, 1) IN i <= Len(s) /\ CharAt(s, i) = "["

JsonFail == [ok |-> FALSE, val |-> <<>>, next |-> 0]

\* a string at position i: [ok, val, next]
JsonString(s, i) ==
    IF i > Len(s) \/ CharAt(s, i) # "\"" THEN [ok |-> FALSE, val |-> "", next |-> 0]
    ELSE LET j == FindChar(s, "\"", i + 1)
         IN  IF j = 0 \/ HasChar(SubSeq(s, i + 1, j - 1), "\n")
             THEN [ok |-> FALSE, val |-> "", next |-> 0]
             ELSE [ok |-> TRUE, val |-> SubSeq(s, i + 1, j - 1), next |-> j + 1]

\* the members "key":"value" of an object from position i to its closing brace
RECURSIVE JsonMembers(_, _)
JsonMembers(s, i) ==
    LET k == JsonString(s, i)
        v == IF k.ok /\ k.next <= Len(s) /\ CharAt(s, k.next) = ":"
             THEN JsonString(s, k.next + 1)
             ELSE [ok |-> FALSE, val |-> "", next |-> 0]
    IN  IF ~v.ok \/ v.next > Len(s) THEN JsonFail
        ELSE IF CharAt(s, v.next) = "}"
        THEN [ok |-> TRUE, val |-> << <<k.val, v.val>> >>, next |-> v.next + 1]
        ELSE IF CharAt(s, v.next) = ","
        THEN LET rest == JsonMembers(s, v.next + 1)
             IN  IF rest.ok
                 THEN [ok |-> TRUE, val |-> << <<k.val, v.val>> >> \o rest.val,
                       next |-> rest.next]
                 ELSE JsonFail
        ELSE JsonFail

JsonObject(s, i) ==
    IF i + 1 > Len(s) \/ CharAt(s, i) # "{" THEN JsonFail
    ELSE IF CharAt(s, i + 1) = "}" THEN [ok |-> TRUE, val |-> <<>>, next |-> i + 2]
    ELSE JsonMembers(s, i + 1)

\* the objects of an array from position i to its closing bracket
RECURSIVE JsonObjects(_, _)
JsonObjects(s, i) ==
    LET o == JsonObject(s, i)
    IN  IF ~o.ok \/ o.next > Len(s) THEN JsonFail
        ELSE IF CharAt(s, o.next) = "]"
        THEN [ok |-> TRUE, val |-> <<o.val>>, next |-> o.next + 1]
        ELSE IF CharAt(s, o.next) = ","
        THEN LET rest == JsonObjects(s, o.next + 1)
             IN  IF rest.ok
                 THEN [ok |-> TRUE, val |-> <<o.val>> \o rest.val, next |-> rest.next]
                 ELSE JsonFail
        ELSE JsonFail

JsonArray(s, i) ==
    IF i + 1 > Len(s) \/ CharAt(s, i) # "[" THEN JsonFail
    ELSE IF CharAt(s, i + 1) = "]" THEN [ok |-> TRUE, val |-> <<>>, next |-> i + 2]
    ELSE JsonObjects(s, i + 1)

\* json.loads(s): [ok, val]; not ok is json.JSONDecodeError
JsonLoads(s) ==
    LET a == JsonArray(s, SkipSpace(s, 1))
    IN  IF a.ok /\ SkipSpace(s, a.next) > Len(s)
        THEN [ok |-> TRUE, val |-> a.val]
        ELSE [ok |-> FALSE, val |-> <<>>]

\* line 190: the boundary between two events
Boundary == "},{\"title\":"

\* lines 193-197: where the array starts, as a Python index (-1: not found);
\* m is the Python index of the first match of the boundary
StartPos(s, m) ==
    LET a == RFind(s, "[{\"title\":", m + 10)
        b == RFind(s, ",{\"title\":", m + 10)
    IN  IF a # 0 THEN a - 1
        ELSE IF b # 0 THEN (b - 1) + 1
        ELSE -1

\* s[k:] for a Python index k >= -1
SliceFrom(s, k) ==
    IF k = -1 THEN SubSeq(s, Len(s), Len(s)) ELSE SubSeq(s, k + 1, Len(s))

\* lines 185-186: the text starts with the array
ExtractDirect ==
    /\ pc = "extract"
    /\ StartsWithBracket(content)
    /\ data' = JsonLoads(content)
    /\ pc' = (IF JsonLoads(content).ok THEN "extracted" ELSE "extract_raised")
    /\ exc' = (IF JsonLoads(content).ok THEN "" ELSE "JSONDecodeError")
    /\ UNCHANGED <<content, array_text, start_pos, json_content, scan, bracket_count,
                   end_pos>>

\* lines 191-192, 213-214: no boundary in the text
ExtractNoMatch ==
    /\ pc = "extract"
    /\ ~StartsWithBracket(content)
    /\ Find(content, Boundary, 1) = 0
    /\ pc' = "extract_raised"
    /\ exc' = "ValueError"
    /\ UNCHANGED extractVars

\* lines 191-201: the start of the array is looked for before the first boundary
ExtractLocate ==
    /\ pc = "extract"
    /\ ~StartsWithBracket(content)
    /\ Find(content, Boundary, 1) # 0
    /\ LET m == Find(content, Boundary, 1) - 1
       IN  /\ start_pos' = StartPos(content, m)
           /\ json_content' = SliceFrom(content, StartPos(content, m))
    /\ bracket_count' = 0
    /\ end_pos' = 0
    /\ scan' = 0
    /\ pc' = "scan"
    /\ UNCHANGED <<content, array_text, data, exc>>

\* lines 202-209: one character of the scan for the closing bracket
ScanStep ==
    /\ pc = "scan"
    /\ scan < Len(json_content)
    /\ LET char == CharAt(json_content, scan + 1)
           count == IF char = "[" THEN bracket_count + 1
                    ELSE IF char = "]" THEN bracket_count - 1
                    ELSE bracket_count
       IN  /\ bracket_count' = count
           /\ IF char = "]" /\ count = 0
              THEN /\ end_pos' = scan + 1
                   /\ pc' = "slice"
                   /\ scan' = scan
              ELSE /\ scan' = scan + 1
                   /\ UNCHANGED <<end_pos, pc>>
    /\ UNCHANGED <<content, array_text, start_pos, json_content, data, exc>>

\* line 202: the scan reaches the end of the text
ScanEnd ==
    /\ pc = "scan"
    /\ scan = Len(json_content)
    /\ pc' = "slice"
    /\ UNCHANGED <<extractVars, exc>>

\* lines 211-212
ExtractParse ==
    /\ pc = "slice"
    /\ json_content' = SubSeq(json_content, 1, end_pos)
    /\ data' = JsonLoads(SubSeq(json_content, 1, end_pos))
    /\ pc' = (IF data'.ok THEN "extracted" ELSE "extract_raised")
    /\ exc' = (IF data'.ok THEN "" ELSE "JSONDecodeError")
    /\ UNCHANGED <<content, array_text, start_pos, scan, bracket_count, end_pos>>

\* the expansion has not started
expandIdle == <<mode, input_data, idx, expanded_events, recurring_count, gri_results,
                master_event, recurrence, start_time_str, event_duration, recurrence_end,
                current_date, instance_count, instances, ret, outcome>>

ArrayTexts ==
    { "[{\"title\":\"A\"},{\"title\":\"B\"}]",
      "[{\"title\":\"A\"}]",
      "[]",
      "[{\"id\":\"1\",\"title\":\"A\"},{\"id\":\"2\",\"title\":\"B\"}]",
      "[{\"title\":\"A\",\"room\":\"R1\"},{\"title\":\"B\",\"room\":\"R2\"},{\"title\":\"C\",\"room\":\"R3\"}]",
      "[{\"title\":\"A[1]\"},{\"title\":\"B\"}]",
      "[{\"title\":\"A]\"},{\"title\":\"B\"}]",
      "[{\"title\":\"A\",\"room\":\"[R\"},{\"title\":\"B\",\"room\":\"R2\"}]" }

Prefixes ==
    { "", " \n", "<html><body>", "<p>[1]</p>", "events=",
      "<i>},{\"title\":</i>", "<b>[{\"title\":\"X\"},{\"title\":\"Y\"}]</b>" }

Suffixes == { "", "\n", "</body></html>", "<p>[2]</p>", ";" }

InitExtract ==
    /\ array_text \in ArrayTexts
    /\ \E prefix \in Prefixes, suffix \in Suffixes : content = prefix \o array_text \o suffix
    /\ pc = "extract"
    /\ start_pos = 0
    /\ json_content = ""
    /\ scan = 0
    /\ bracket_count = 0
    /\ end_pos = 0
    /\ data = [ok |-> FALSE, val |-> <<>>]
    /\ exc = ""
    /\ mode = "extract"
    /\ input_data = <<>>
    /\ idx = 1
    /\ expanded_events = <<>>
    /\ recurring_count = 0
    /\ gri_results = <<>>
    /\ master_event = EmptyDict
    /\ recurrence = ""
    /\ start_time_str = ""
    /\ event_duration = NoDuration
    /\ recurrence_end = NoDateTime
    /\ current_date = NoDateTime
    /\ instance_count = 0
    /\ instances = <<>>
    /\ ret = <<>>
    /\ outcome = ""

NextExtract ==
    \/ (ExtractDirect /\ UNCHANGED expandIdle)
    \/ (ExtractNoMatch /\ UNCHANGED expandIdle)
    \/ (ExtractLocate /\ UNCHANGED expandIdle)
    \/ (ScanStep /\ UNCHANGED expandIdle)
    \/ (ScanEnd /\ UNCHANGED expandIdle)
    \/ (ExtractParse /\ UNCHANGED expandIdle)

SpecExtract == InitExtract /\ [][NextExtract]_vars

\* C9: the extraction returns the event array whether its text is given alone
\* or inside markup: from prefix + text(A) + suffix it yields what parsing
\* text(A) yields, for every array A, prefix and suffix.
C9_ExtractionIsEquivalent ==
    (pc \in {"extracted", "extract_raised"}) =>
        /\ pc = "extracted"
        /\ data = JsonLoads(array_text)

=============================================================================
